---- MODULE Spec2Model ----
(***************************************************************************)
(* Model of MemoryHeap/"Memory Allocation Simulation.py": a first-fit      *)
(* allocator over a doubly-linked list of Block objects, with splitting on *)
(* allocation and coalescing on release.                                   *)
(*                                                                         *)
(* Python objects are modelled as a heap: `blocks` maps an object identity *)
(* to the object's fields, and a reference is an identity (None is 0).     *)
(* A handle is the reference first_fit returns.                            *)
(*                                                                         *)
(* The simulation loop of the same file and the word index of              *)
(* Lab_Exam2/bst_indexer.py are modelled further down.                     *)
(***************************************************************************)
EXTENDS Integers, Sequences, FiniteSets, TLC

\* ---- bounds ----
MaxMemory == 4          \* total_memory ranges over 1..MaxMemory
MaxSize == 5            \* request sizes range over 1..MaxSize
MaxStale == 2           \* released handles a caller may keep
MaxCalls == 6           \* calls made by a caller that may release a handle again
ExampleSteps == 6       \* calls made in the spec's first-fit example arena
RoundTripSteps == 5     \* calls made in the spec's round-trip arena
MaxNonPositive == 2     \* capacities 0, -1, ... tried at construction
DriverMemory == 4       \* the simulation's arena (1000 in the source), scaled
MaxDriverSize == 2      \* the simulation's largest request (50), scaled
MaxAllocAttempts == 6   \* the simulation's allocation attempts (50), scaled
MaxFreeCount == 4       \* the simulation's releases (30), scaled
MaxInserts == 4         \* BST.insert calls before the index is saved
MaxLine == 2            \* line numbers 1..MaxLine, and one of two digits

\* ---- the arena of the first-fit example (spec section 8, property 3) ----
ExampleMemory == 10 + 20 + 5 + 50
ExampleSizes == {5, 10, 15, 20}

\* ---- the arena of the round-trip scenario (spec section 8, property 7) ----
RoundTripMemory == 40 + 30 + 30
RoundTripSizes == {30, 35, 40}

None == 0
Ids == 1..(MaxMemory + MaxStale + 1)

VARIABLES
    blocks,         \* heap: identity -> fields of the Block object
    head,           \* MemoryAllocator.head
    total_memory,   \* MemoryAllocator.total_memory
    allocated,      \* the caller's list of outstanding handles
    stale,          \* handles the caller kept after releasing them
    last,           \* the last call: operation, arguments, result, heap before
    steps,          \* calls counted by the bounded specifications
    alloc_attempts, \* the simulation's count of first_fit calls
    free_count,     \* the simulation's count of free_block calls
    pc,             \* the simulation: "loop" while in the while loop, then "done"
    action,         \* the simulation's last random.choice(['alloc', 'free'])
    root,           \* BST.root
    nodes,          \* heap: identity -> fields of the BSTNode object
    inserted,       \* the words passed to BST.insert so far
    file,           \* the file save_to_file writes
    reloaded        \* a new BST() after load_from_file of that file

driver == <<alloc_attempts, free_count, pc, action>>

index == <<root, nodes, inserted, file, reloaded>>

vars ==
    <<blocks, head, total_memory, allocated, stale, last, steps, driver, index>>

\* An identity with no object behind it.
NoBlock == [start |-> 0, size |-> 0, free |-> FALSE, prev |-> None, next |-> None]

\* Block.__init__
Block(start, size) ==
    [start |-> start, size |-> size, free |-> TRUE, prev |-> None, next |-> None]

\* The identity a new object gets: any unused one; the lowest is taken.
NewId(bl) ==
    CHOOSE i \in Ids : bl[i] = NoBlock /\ \A j \in Ids : j < i => bl[j] # NoBlock

HasNewId(bl) == \E i \in Ids : bl[i] = NoBlock

\* The loop of first_fit / print_memory: the blocks met from `current` on.
RECURSIVE Walk(_, _)
Walk(bl, current) ==
    IF current = None THEN <<>> ELSE <<current>> \o Walk(bl, bl[current].next)

\* What print_memory shows: (start, size, free) per block from head on.
Traversal(bl, hd) ==
    LET w == Walk(bl, hd)
    IN  [i \in 1..Len(w) |-> <<bl[w[i]].start, bl[w[i]].size, bl[w[i]].free>>]

\* The scan of first_fit started at `current`: the block it hands to
\* _allocate_block, or None when the loop runs off the end.
RECURSIVE Scan(_, _, _)
Scan(bl, current, size) ==
    IF current = None THEN None
    ELSE IF bl[current].free /\ bl[current].size >= size THEN current
    ELSE Scan(bl, bl[current].next, size)

RECURSIVE ScanLast(_, _, _, _)
ScanLast(bl, current, size, found) ==
    IF current = None THEN found
    ELSE IF bl[current].free /\ bl[current].size >= size
         THEN ScanLast(bl, bl[current].next, size, current)
         ELSE ScanLast(bl, bl[current].next, size, found)

\* mutant of first_fit: keeps scanning and takes the last adequate block
first_fit_last(bl, hd, size) == ScanLast(bl, hd, size, None)

\* mutant of first_fit: compares with > instead of >=
RECURSIVE ScanStrict(_, _, _)
ScanStrict(bl, current, size) ==
    IF current = None THEN None
    ELSE IF bl[current].free /\ bl[current].size > size THEN current
    ELSE ScanStrict(bl, bl[current].next, size)

first_fit_strict(bl, hd, size) == ScanStrict(bl, hd, size)

\* first_fit: the block chosen for a request (None: "No suitable block").
first_fit(bl, hd, size) == Scan(bl, hd, size)

\* mutant of _allocate_block: the remainder is not linked to the successor
allocate_block_nolink(bl, block, size) ==
    IF bl[block].size = size THEN [bl EXCEPT ![block].free = FALSE]
    ELSE
      LET new_block == NewId(bl)
          b1 == [bl EXCEPT ![new_block] =
                    [Block(bl[block].start + size, bl[block].size - size)
                        EXCEPT !.prev = block]]
      IN  [b1 EXCEPT ![block].next = new_block,
                     ![block].size = size,
                     ![block].free = FALSE]

\* mutant of _allocate_block: the block is not shrunk on a split
allocate_block_noshrink(bl, block, size) ==
    IF bl[block].size = size THEN [bl EXCEPT ![block].free = FALSE]
    ELSE
      LET new_block == NewId(bl)
          nx == bl[block].next
          b1 == [bl EXCEPT ![new_block] =
                    [Block(bl[block].start + size, bl[block].size - size)
                        EXCEPT !.next = nx, !.prev = block]]
          b2 == IF nx # None THEN [b1 EXCEPT ![nx].prev = new_block] ELSE b1
      IN  [b2 EXCEPT ![block].next = new_block,
                     ![block].free = FALSE]

\* mutant of _allocate_block: the successor's prev is not set to the remainder
allocate_block_noback(bl, block, size) ==
    IF bl[block].size = size THEN [bl EXCEPT ![block].free = FALSE]
    ELSE
      LET new_block == NewId(bl)
          nx == bl[block].next
          b1 == [bl EXCEPT ![new_block] =
                    [Block(bl[block].start + size, bl[block].size - size)
                        EXCEPT !.next = nx, !.prev = block]]
      IN  [b1 EXCEPT ![block].next = new_block,
                     ![block].size = size,
                     ![block].free = FALSE]

\* _allocate_block: the heap after the call (the call returns `block`).
allocate_block(bl, block, size) ==
    IF bl[block].size = size THEN [bl EXCEPT ![block].free = FALSE]
    ELSE
      LET new_block == NewId(bl)
          nx == bl[block].next
          b1 == [bl EXCEPT ![new_block] =
                    [Block(bl[block].start + size, bl[block].size - size)
                        EXCEPT !.next = nx, !.prev = block]]
          b2 == IF nx # None THEN [b1 EXCEPT ![nx].prev = new_block] ELSE b1
      IN  [b2 EXCEPT ![block].next = new_block,
                     ![block].size = size,
                     ![block].free = FALSE]

\* free_block, lines 41-45: absorb a free successor.
MergeNext(bl, block) ==
    LET nx == bl[block].next
    IN  IF nx # None /\ bl[nx].free
        THEN LET b1 == [bl EXCEPT ![block].size = bl[block].size + bl[nx].size]
                 b2 == [b1 EXCEPT ![block].next = b1[nx].next]
             IN  IF b2[block].next # None
                 THEN [b2 EXCEPT ![b2[block].next].prev = block]
                 ELSE b2
        ELSE bl

\* free_block, lines 46-50: be absorbed by a free predecessor.
MergePrev(bl, block) ==
    LET pv == bl[block].prev
    IN  IF pv # None /\ bl[pv].free
        THEN LET b1 == [bl EXCEPT ![pv].size = bl[pv].size + bl[block].size]
                 b2 == [b1 EXCEPT ![b1[block].prev].next = b1[block].next]
             IN  IF b2[block].next # None
                 THEN [b2 EXCEPT ![b2[block].next].prev = b2[block].prev]
                 ELSE b2
        ELSE bl

\* mutant of free_block: the successor is not merged
free_block_nonext(bl, block) ==
    MergePrev([bl EXCEPT ![block].free = TRUE], block)

\* mutant of free_block: the predecessor's size is not grown
free_block_nogrow(bl, block) ==
    LET b0 == MergeNext([bl EXCEPT ![block].free = TRUE], block)
        pv == b0[block].prev
    IN  IF pv # None /\ b0[pv].free
        THEN LET b2 == [b0 EXCEPT ![pv].next = b0[block].next]
             IN  IF b2[block].next # None
                 THEN [b2 EXCEPT ![b2[block].next].prev = b2[block].prev]
                 ELSE b2
        ELSE b0

\* mutant of free_block: the successor is absorbed without testing .free
free_block_eager(bl, block) ==
    LET b0 == [bl EXCEPT ![block].free = TRUE]
        nx == b0[block].next
        b3 == IF nx # None
              THEN LET b1 == [b0 EXCEPT ![block].size = b0[block].size + b0[nx].size]
                       b2 == [b1 EXCEPT ![block].next = b1[nx].next]
                   IN  IF b2[block].next # None
                       THEN [b2 EXCEPT ![b2[block].next].prev = block]
                       ELSE b2
              ELSE b0
    IN  MergePrev(b3, block)

\* free_block: the heap after the call.
free_block(bl, block) ==
    MergePrev(MergeNext([bl EXCEPT ![block].free = TRUE], block), block)

\* Objects still referenced: from head, from a handle, or from such an object.
RECURSIVE Closure(_, _)
Closure(bl, S) ==
    LET T == S \cup {bl[i].next : i \in S} \cup {bl[i].prev : i \in S}
        U == T \ {None}
    IN  IF U = S THEN S ELSE Closure(bl, U)

Range(s) == {s[i] : i \in 1..Len(s)}

\* Reference counting: an object nothing refers to any more is gone.
Collect(bl, hd, handles) ==
    LET live == Closure(bl, ({hd} \cup handles) \ {None})
    IN  [i \in Ids |-> IF i \in live THEN bl[i] ELSE NoBlock]

\* list.remove: drop the first occurrence.
Remove(s, i) == SubSeq(s, 1, i - 1) \o SubSeq(s, i + 1, Len(s))

\* MemoryAllocator.__init__ and the caller's empty list.
InitArena(tm) ==
    /\ total_memory = tm
    /\ head = 1
    /\ blocks = [i \in Ids |-> IF i = 1 THEN Block(0, tm) ELSE NoBlock]
    /\ allocated = <<>>
    /\ stale = {}
    /\ last = [op |-> "init", size |-> 0, handle |-> None, ret |-> None,
               outcome |-> "arena", blocks |-> blocks, allocated |-> <<>>,
               wasStale |-> FALSE]
    /\ steps = 0

(***************************************************************************)
(* Lab_Exam2/bst_indexer.py: a binary search tree of words, each with the  *)
(* queue of line numbers it occurs on.  A string is the sequence of its    *)
(* code points; a file is the string written to it.                        *)
(***************************************************************************)
TAB == 9
NEWLINE == 10
SPACE == 32
COMMA == 44
DIGIT0 == 48

\* the words "A", "a", "ran", "rat"
Words == {<<65>>, <<97>>, <<114, 97, 110>>, <<114, 97, 116>>}

Lines == (1..MaxLine) \cup {10 * MaxLine + 1}

NodeIds == 1..(MaxInserts + 1)

\* An identity with no BSTNode behind it.
NoNode == [word |-> <<>>, lines |-> <<>>, left |-> None, right |-> None]

NoNodes == [i \in NodeIds |-> NoNode]

NewNode(nd) ==
    CHOOSE i \in NodeIds : nd[i] = NoNode /\ \A j \in NodeIds : j < i => nd[j] # NoNode

\* str < str: by code point, a proper prefix first.
RECURSIVE StrLess(_, _)
StrLess(a, b) ==
    IF b = <<>> THEN FALSE
    ELSE IF a = <<>> THEN TRUE
    ELSE IF a[1] # b[1] THEN a[1] < b[1]
    ELSE StrLess(Tail(a), Tail(b))

\* Queue.append: the queue as the list of its values, head first.
QueueAppend(q, value) ==
    IF q # <<>> /\ q[Len(q)] = value THEN q ELSE Append(q, value)

\* BSTNode(word) followed by node.lines.append(line)
BSTNode(word, line) ==
    [word |-> word, lines |-> QueueAppend(<<>>, line), left |-> None, right |-> None]

\* _insert of BST.insert: the heap after the call and the node it returns.
RECURSIVE InsertAt(_, _, _, _)
InsertAt(nd, node, word, line) ==
    IF node = None
    THEN LET n == NewNode(nd)
         IN  [nodes |-> [nd EXCEPT ![n] = BSTNode(word, line)], node |-> n]
    ELSE IF word = nd[node].word
    THEN [nodes |-> [nd EXCEPT ![node].lines = QueueAppend(nd[node].lines, line)],
          node |-> node]
    ELSE IF StrLess(word, nd[node].word)
    THEN LET r == InsertAt(nd, nd[node].left, word, line)
         IN  [nodes |-> [r.nodes EXCEPT ![node].left = r.node], node |-> node]
    ELSE LET r == InsertAt(nd, nd[node].right, word, line)
         IN  [nodes |-> [r.nodes EXCEPT ![node].right = r.node], node |-> node]

RECURSIVE InsertAtSwapped(_, _, _, _)
InsertAtSwapped(nd, node, word, line) ==
    IF node = None
    THEN LET n == NewNode(nd)
         IN  [nodes |-> [nd EXCEPT ![n] = BSTNode(word, line)], node |-> n]
    ELSE IF word = nd[node].word
    THEN [nodes |-> [nd EXCEPT ![node].lines = QueueAppend(nd[node].lines, line)],
          node |-> node]
    ELSE IF StrLess(nd[node].word, word)
    THEN LET r == InsertAtSwapped(nd, nd[node].left, word, line)
         IN  [nodes |-> [r.nodes EXCEPT ![node].left = r.node], node |-> node]
    ELSE LET r == InsertAtSwapped(nd, nd[node].right, word, line)
         IN  [nodes |-> [r.nodes EXCEPT ![node].right = r.node], node |-> node]

\* mutant of BST.insert: the comparison of the descent is the wrong way round
insert_swapped(nd, rt, word, line) ==
    LET r == InsertAtSwapped(nd, rt, word, line)
    IN  [nodes |-> r.nodes, root |-> r.node]

\* BST.insert: the heap and the root after the call.
insert(nd, rt, word, line) ==
    LET r == InsertAt(nd, rt, word, line)
    IN  [nodes |-> r.nodes, root |-> r.node]

\* _inorder of BST.inorder_traverse: the (word, [lines]) pairs it yields.
RECURSIVE Inorder(_, _)
Inorder(nd, node) ==
    IF node = None THEN <<>>
    ELSE Inorder(nd, nd[node].left)
            \o <<<<nd[node].word, nd[node].lines>>>>
            \o Inorder(nd, nd[node].right)

inorder_traverse(nd, rt) == Inorder(nd, rt)

\* str(num) of a number >= 0
RECURSIVE Str(_)
Str(num) ==
    IF num < 10 THEN <<DIGIT0 + num>>
    ELSE Str(num \div 10) \o <<DIGIT0 + (num % 10)>>

\* ','.join(...)
RECURSIVE Join(_)
Join(strs) ==
    IF strs = <<>> THEN <<>>
    ELSE IF Len(strs) = 1 THEN strs[1]
    ELSE strs[1] \o <<COMMA>> \o Join(Tail(strs))

\* the text save_to_file writes for the pairs of the traversal
RECURSIVE FileText(_)
FileText(pairs) ==
    IF pairs = <<>> THEN <<>>
    ELSE LET word == pairs[1][1]
             lines == pairs[1][2]
             line_str == Join([i \in 1..Len(lines) |-> Str(lines[i])])
         IN  word \o <<TAB>> \o line_str \o <<NEWLINE>> \o FileText(Tail(pairs))

\* BST.save_to_file: the contents of the file.
save_to_file(nd, rt) == FileText(inorder_traverse(nd, rt))

\* str.split(sep): the pieces between the separators.
RECURSIVE Split(_, _, _)
Split(str, sep, piece) ==
    IF str = <<>> THEN <<piece>>
    ELSE IF str[1] = sep THEN <<piece>> \o Split(Tail(str), sep, <<>>)
    ELSE Split(Tail(str), sep, Append(piece, str[1]))

\* `for line in f` and rstrip: the lines of the text without their '\n'
\* (an empty last piece is no line; an empty line is skipped by the loop).
FileLines(text) == Split(text, NEWLINE, <<>>)

\* line.split('\t', 1): the parts before and after the first tab.
RECURSIVE BeforeTab(_)
BeforeTab(str) ==
    IF str = <<>> \/ str[1] = TAB THEN <<>> ELSE <<str[1]>> \o BeforeTab(Tail(str))

AfterTab(str) == SubSeq(str, Len(BeforeTab(str)) + 2, Len(str))

HasTab(str) == \E i \in 1..Len(str) : str[i] = TAB

Whitespace == {TAB, NEWLINE, SPACE, 11, 12, 13}

\* str.strip()
RECURSIVE LStrip(_)
LStrip(str) ==
    IF str # <<>> /\ str[1] \in Whitespace THEN LStrip(Tail(str)) ELSE str

RECURSIVE RStrip(_)
RStrip(str) ==
    IF str # <<>> /\ str[Len(str)] \in Whitespace
    THEN RStrip(SubSeq(str, 1, Len(str) - 1)) ELSE str

Strip(str) == RStrip(LStrip(str))

IsDigits(str) ==
    str # <<>> /\ \A i \in 1..Len(str) : str[i] \in DIGIT0..(DIGIT0 + 9)

\* int(num_str) of a string of digits (anything else raises ValueError)
RECURSIVE int(_)
int(str) ==
    IF str = <<>> THEN 0
    ELSE 10 * int(SubSeq(str, 1, Len(str) - 1)) + (str[Len(str)] - DIGIT0)

\* the inner loop of load_from_file over lines_str.split(','); t is the tree
\* so far, with t.error set once int() raised.
RECURSIVE LoadNumbers(_, _, _, _)
LoadNumbers(t, word, strs, seen) ==
    IF strs = <<>> \/ t.error THEN t
    ELSE LET num_str == Strip(strs[1])
         IN  IF num_str = <<>> THEN LoadNumbers(t, word, Tail(strs), seen)
             ELSE IF ~IsDigits(num_str) THEN [t EXCEPT !.error = TRUE]
             ELSE LET num == int(num_str)
                  IN  IF num \in seen
                      THEN LoadNumbers(t, word, Tail(strs), seen)
                      ELSE LET r == insert(t.nodes, t.root, word, num)
                           IN  LoadNumbers([t EXCEPT !.nodes = r.nodes,
                                                     !.root = r.root],
                                           word, Tail(strs), seen \cup {num})

\* the outer loop of load_from_file over the lines of the file
RECURSIVE LoadLines(_, _)
LoadLines(t, lines) ==
    IF lines = <<>> \/ t.error THEN t
    ELSE LET line == lines[1]
         IN  IF line = <<>> \/ ~HasTab(line) THEN LoadLines(t, Tail(lines))
             ELSE LoadLines(LoadNumbers(t, BeforeTab(line),
                                        Split(AfterTab(line), COMMA, <<>>), {}),
                            Tail(lines))

\* BST.load_from_file into the tree (nd, rt).
load_from_file(nd, rt, text) ==
    LoadLines([done |-> TRUE, nodes |-> nd, root |-> rt, error |-> FALSE],
              FileLines(text))

\* BST() and no file written yet.
InitIndex ==
    /\ root = None
    /\ nodes = NoNodes
    /\ inserted = {}
    /\ file = [written |-> FALSE, text |-> <<>>]
    /\ reloaded = [done |-> FALSE, nodes |-> NoNodes, root |-> None, error |-> FALSE]

\* alloc_attempts = 0; free_count = 0, before the loop is entered.
InitCounters ==
    /\ alloc_attempts = 0
    /\ free_count = 0
    /\ pc = "loop"
    /\ action = "none"

Init == (\E tm \in 1..MaxMemory : InitArena(tm)) /\ InitCounters /\ InitIndex

\* mutant of FirstFit: the result is appended without the `if block:` test
FirstFitAppendAlways(size) ==
    LET block == first_fit(blocks, head, size)
    IN  /\ last' = [op |-> "first_fit", size |-> size, handle |-> None,
                    ret |-> block,
                    outcome |-> IF block = None THEN "None" ELSE "block",
                    blocks |-> blocks, allocated |-> allocated,
                    wasStale |-> FALSE]
        /\ allocated' = Append(allocated, block)
        /\ IF block = None
           THEN UNCHANGED <<blocks, stale>>
           ELSE /\ blocks[block].size # size => HasNewId(blocks)
                /\ blocks' = allocate_block(blocks, block, size)
                /\ stale' = stale \ {block}
        /\ UNCHANGED <<head, total_memory>>

\* block = allocator.first_fit(size); if block: allocated.append(block)
FirstFit(size) ==
    LET block == first_fit(blocks, head, size)
    IN  /\ last' = [op |-> "first_fit", size |-> size, handle |-> None,
                    ret |-> block,
                    outcome |-> IF block = None THEN "None" ELSE "block",
                    blocks |-> blocks, allocated |-> allocated,
                    wasStale |-> FALSE]
        /\ IF block = None
           THEN UNCHANGED <<blocks, allocated, stale>>
           ELSE /\ blocks[block].size # size => HasNewId(blocks)
                /\ blocks' = allocate_block(blocks, block, size)
                /\ allocated' = Append(allocated, block)
                /\ stale' = stale \ {block}
        /\ UNCHANGED <<head, total_memory>>

\* mutant of Release: the handle is not removed from the list
ReleaseNoRemove(i, keep) ==
    LET block == allocated[i]
    IN  /\ keep => Cardinality(stale) < MaxStale
        /\ allocated' = allocated
        /\ stale' = IF keep THEN stale \cup {block} ELSE stale
        /\ blocks' = Collect(free_block(blocks, block), head,
                             Range(allocated') \cup stale')
        /\ last' = [op |-> "free_block", size |-> 0, handle |-> block,
                    ret |-> None, outcome |-> "None", blocks |-> blocks,
                    allocated |-> allocated, wasStale |-> FALSE]
        /\ UNCHANGED <<head, total_memory>>

\* block = allocated[i]; allocator.free_block(block); allocated.remove(block)
\* keep: the caller holds on to the handle after the release.
Release(i, keep) ==
    LET block == allocated[i]
        first == CHOOSE j \in 1..Len(allocated) :
                    allocated[j] = block /\ \A k \in 1..(j-1) : allocated[k] # block
    IN  /\ keep => Cardinality(stale) < MaxStale
        /\ allocated' = Remove(allocated, first)
        /\ stale' = IF keep THEN stale \cup {block} ELSE stale
        /\ blocks' = Collect(free_block(blocks, block), head,
                             Range(allocated') \cup stale')
        /\ last' = [op |-> "free_block", size |-> 0, handle |-> block,
                    ret |-> None, outcome |-> "None", blocks |-> blocks,
                    allocated |-> allocated, wasStale |-> FALSE]
        /\ UNCHANGED <<head, total_memory>>

\* allocator.free_block(block) on a handle that was released before and not
\* returned again since.
ReleaseAgain(block) ==
    /\ block \in stale
    /\ block \notin Range(allocated)
    /\ blocks' = Collect(free_block(blocks, block), head,
                         Range(allocated) \cup stale)
    /\ last' = [op |-> "free_block", size |-> 0, handle |-> block,
                ret |-> None, outcome |-> "None", blocks |-> blocks,
                allocated |-> allocated, wasStale |-> TRUE]
    /\ UNCHANGED <<head, total_memory, allocated, stale>>

\* ---- callers that release each handle once ----
Allocate == (\E size \in 1..MaxSize : FirstFit(size)) /\ UNCHANGED <<steps, driver, index>>
Free == (\E i \in 1..Len(allocated) : Release(i, FALSE)) /\ UNCHANGED <<steps, driver, index>>

Next == Allocate \/ Free

Spec == Init /\ [][Next]_vars

\* ---- callers that may release a handle again, a bounded number of calls ----
AllocateCounted ==
    /\ steps < MaxCalls
    /\ \E size \in 1..MaxSize : FirstFit(size)
    /\ steps' = steps + 1
    /\ UNCHANGED <<driver, index>>

FreeCounted ==
    /\ steps < MaxCalls
    /\ \E i \in 1..Len(allocated) : Release(i, FALSE)
    /\ steps' = steps + 1
    /\ UNCHANGED <<driver, index>>

FreeKeep ==
    /\ steps < MaxCalls
    /\ \E i \in 1..Len(allocated) : Release(i, TRUE)
    /\ steps' = steps + 1
    /\ UNCHANGED <<driver, index>>

FreeAgain ==
    /\ steps < MaxCalls
    /\ \E block \in stale : ReleaseAgain(block)
    /\ steps' = steps + 1
    /\ UNCHANGED <<driver, index>>

NextDoubleRelease == AllocateCounted \/ FreeCounted \/ FreeKeep \/ FreeAgain

SpecDoubleRelease == Init /\ [][NextDoubleRelease]_vars

\* ---- the first-fit example arena, a bounded number of calls ----
InitExample == InitArena(ExampleMemory) /\ InitCounters /\ InitIndex

AllocateExample ==
    /\ steps < ExampleSteps
    /\ \E size \in ExampleSizes : FirstFit(size)
    /\ steps' = steps + 1
    /\ UNCHANGED <<driver, index>>

FreeExample ==
    /\ steps < ExampleSteps
    /\ \E i \in 1..Len(allocated) : Release(i, FALSE)
    /\ steps' = steps + 1
    /\ UNCHANGED <<driver, index>>

NextExample == AllocateExample \/ FreeExample

SpecExample == InitExample /\ [][NextExample]_vars

\* ---- the round-trip arena, a bounded number of calls ----
InitRoundTrip == InitArena(RoundTripMemory) /\ InitCounters /\ InitIndex

AllocateRoundTrip ==
    /\ steps < RoundTripSteps
    /\ \E size \in RoundTripSizes : FirstFit(size)
    /\ steps' = steps + 1
    /\ UNCHANGED <<driver, index>>

FreeRoundTrip ==
    /\ steps < RoundTripSteps
    /\ \E i \in 1..Len(allocated) : Release(i, FALSE)
    /\ steps' = steps + 1
    /\ UNCHANGED <<driver, index>>

NextRoundTrip == AllocateRoundTrip \/ FreeRoundTrip

SpecRoundTrip == InitRoundTrip /\ [][NextRoundTrip]_vars

\* ---- construction with any capacity: __init__ tests nothing ----
InitConstruct ==
    /\ \E tm \in (0 - MaxNonPositive + 1)..MaxMemory : InitArena(tm)
    /\ InitCounters
    /\ InitIndex

SpecConstruct == InitConstruct /\ [][Next]_vars

\* ---- the simulation loop ----
InitDriver == InitArena(DriverMemory) /\ InitCounters /\ InitIndex

\* while alloc_attempts < 50 or free_count < 30
LoopCondition ==
    alloc_attempts < MaxAllocAttempts \/ free_count < MaxFreeCount

\* an iteration with action == 'alloc' and alloc_attempts < 50
DriverAlloc ==
    /\ pc = "loop"
    /\ LoopCondition
    /\ alloc_attempts < MaxAllocAttempts
    /\ \E size \in 1..MaxDriverSize : FirstFit(size)
    /\ alloc_attempts' = alloc_attempts + 1
    /\ action' = "alloc"
    /\ UNCHANGED <<free_count, pc, steps, index>>

\* an iteration with action == 'free', free_count < 30 and allocated not empty
DriverFree ==
    /\ pc = "loop"
    /\ LoopCondition
    /\ free_count < MaxFreeCount
    /\ allocated # <<>>
    /\ \E i \in 1..Len(allocated) : Release(i, FALSE)
    /\ free_count' = free_count + 1
    /\ action' = "free"
    /\ UNCHANGED <<alloc_attempts, pc, steps, index>>

\* an iteration in which neither `if` is taken: 'alloc' with the attempts
\* used up, or 'free' with the releases used up or nothing to release
DriverSkip ==
    /\ pc = "loop"
    /\ LoopCondition
    /\ \/ action' = "alloc" /\ alloc_attempts >= MaxAllocAttempts
       \/ action' = "free" /\ (free_count >= MaxFreeCount \/ allocated = <<>>)
    /\ UNCHANGED <<blocks, head, total_memory, allocated, stale, last, steps,
                   alloc_attempts, free_count, pc, index>>

\* the loop condition is false: the loop is left
DriverExit ==
    /\ pc = "loop"
    /\ ~LoopCondition
    /\ pc' = "done"
    /\ UNCHANGED <<blocks, head, total_memory, allocated, stale, last, steps,
                   alloc_attempts, free_count, action, index>>

NextDriver == DriverAlloc \/ DriverFree \/ DriverSkip \/ DriverExit

\* The loop keeps iterating, and random.choice picks 'alloc' and 'free' again
\* and again: an iteration that stays possible, or becomes possible over and
\* over, is eventually made.
SpecDriver ==
    /\ InitDriver
    /\ [][NextDriver]_vars
    /\ SF_vars(DriverAlloc)
    /\ SF_vars(DriverFree)
    /\ SF_vars(DriverSkip)
    /\ WF_vars(DriverExit)

\* ---- the index: inserts, then the tree is saved and loaded again ----
\* bst.insert(word, line)
Insert ==
    /\ ~file.written
    /\ steps < MaxInserts
    /\ \E word \in Words, line \in Lines :
          LET r == insert(nodes, root, word, line)
          IN  /\ nodes' = r.nodes
              /\ root' = r.root
              /\ inserted' = inserted \cup {word}
    /\ steps' = steps + 1
    /\ UNCHANGED <<file, reloaded>>

\* bst.save_to_file(path)
SaveToFile ==
    /\ ~file.written
    /\ file' = [written |-> TRUE, text |-> save_to_file(nodes, root)]
    /\ UNCHANGED <<root, nodes, inserted, reloaded, steps>>

\* BST().load_from_file(path)
LoadFromFile ==
    /\ file.written
    /\ ~reloaded.done
    /\ reloaded' = load_from_file(NoNodes, None, file.text)
    /\ UNCHANGED <<root, nodes, inserted, file, steps>>

NextIndex ==
    (Insert \/ SaveToFile \/ LoadFromFile)
        /\ UNCHANGED <<blocks, head, total_memory, allocated, stale, last, driver>>

\* the allocator is not used by the indexer: any arena will do
InitIndexer == InitArena(MaxMemory) /\ InitCounters /\ InitIndex

SpecIndex == InitIndexer /\ [][NextIndex]_vars

\* ---- helpers of the properties ----
Cur == Walk(blocks, head)               \* the blocks now
Pre == Walk(last.blocks, head)          \* the blocks before the last call

Triple(bl, b) == <<bl[b].start, bl[b].size, bl[b].free>>

Count(s, x) == Cardinality({i \in 1..Len(s) : s[i] = x})

RECURSIVE SumSizes(_, _)
SumSizes(bl, w) ==
    IF w = <<>> THEN 0 ELSE bl[Head(w)].size + SumSizes(bl, Tail(w))

\* s without the entries that are in the set D
RECURSIVE Without(_, _)
Without(s, D) ==
    IF s = <<>> THEN <<>>
    ELSE IF Head(s) \in D THEN Without(Tail(s), D)
    ELSE <<Head(s)>> \o Without(Tail(s), D)

\* s with x put right after the entry b
RECURSIVE InsertAfter(_, _, _)
InsertAfter(s, b, x) ==
    IF s = <<>> THEN <<>>
    ELSE IF Head(s) = b THEN <<b, x>> \o Tail(s)
    ELSE <<Head(s)>> \o InsertAfter(Tail(s), b, x)

Fits(bl, b, size) == bl[b].free /\ bl[b].size >= size

\* C1: after every call the blocks reachable from head partition
\* [0, total_memory): the first starts at 0, each successor starts where its
\* predecessor ends, the last ends at total_memory, every size is positive.
C1_Partition ==
    /\ Len(Cur) > 0
    /\ blocks[Cur[1]].start = 0
    /\ \A i \in 1..(Len(Cur) - 1) :
          blocks[Cur[i + 1]].start = blocks[Cur[i]].start + blocks[Cur[i]].size
    /\ blocks[Cur[Len(Cur)]].start + blocks[Cur[Len(Cur)]].size = total_memory
    /\ \A i \in 1..Len(Cur) : blocks[Cur[i]].size > 0

\* C1 witness: a release that merged left an arena of at least three blocks.
C1_Witness ==
    /\ last.op = "free_block"
    /\ Len(Pre) > Len(Cur)
    /\ Len(Cur) >= 3

\* C2: after every call no two adjacent blocks are both free.
C2_NoAdjacentFree ==
    \A i \in 1..(Len(Cur) - 1) :
        ~(blocks[Cur[i]].free /\ blocks[Cur[i + 1]].free)

\* C2 witness: a block was released between two free neighbours.
C2_Witness ==
    /\ last.op = "free_block"
    /\ LET b == last.handle
           pv == last.blocks[b].prev
           nx == last.blocks[b].next
       IN  /\ pv # None /\ last.blocks[pv].free
           /\ nx # None /\ last.blocks[nx].free

\* C3: in every state the sizes of the blocks reachable from head add up to
\* total_memory, whatever first_fit and free_block calls were made.
C3_Conservation == SumSizes(blocks, Cur) = total_memory

\* C4: a successful first_fit returns the lowest-start block among those that
\* were free and large enough before the call; in the arena 0 (10 used),
\* 10 (20 free), 30 (5 used), 35 (50 free), a request of 15 takes the block at
\* 10 and leaves [10,25) used and [25,30) free.
ExampleBefore ==
    <<<<0, 10, FALSE>>, <<10, 20, TRUE>>, <<30, 5, FALSE>>, <<35, 50, TRUE>>>>
ExampleAfter ==
    <<<<0, 10, FALSE>>, <<10, 15, FALSE>>, <<25, 5, TRUE>>, <<30, 5, FALSE>>,
      <<35, 50, TRUE>>>>

C4_FirstFitLowest ==
    (last.op = "first_fit" /\ last.ret # None) =>
        /\ Count(Pre, last.ret) = 1
        /\ Fits(last.blocks, last.ret, last.size)
        /\ \A i \in 1..Len(Pre) :
              Fits(last.blocks, Pre[i], last.size) =>
                  last.blocks[Pre[i]].start >= last.blocks[last.ret].start
        /\ (Traversal(last.blocks, head) = ExampleBefore /\ last.size = 15) =>
              /\ last.blocks[last.ret].start = 10
              /\ Traversal(blocks, head) = ExampleAfter

\* C4 witness: the request of 15 was served in the example arena.
C4_Witness ==
    /\ last.op = "first_fit"
    /\ last.size = 15
    /\ last.ret # None
    /\ Traversal(last.blocks, head) = ExampleBefore

\* C5: first_fit returns None exactly when no single free block is large
\* enough, also when the free blocks together would be.
C5_FailsIffNoFit ==
    last.op = "first_fit" =>
        (last.ret = None <=>
            ~ \E i \in 1..Len(Pre) : Fits(last.blocks, Pre[i], last.size))

\* C5 witness: a request failed although the free capacity summed over the
\* free blocks was enough.
C5_Witness ==
    /\ last.op = "first_fit"
    /\ last.ret = None
    /\ SumSizes(blocks, Without(Cur, {b \in Ids : ~blocks[b].free})) >= last.size

\* C6: a failed first_fit leaves the blocks and the outstanding handles as
\* they were.
C6_FailureChangesNothing ==
    (last.op = "first_fit" /\ last.ret = None) =>
        /\ Traversal(blocks, head) = Traversal(last.blocks, head)
        /\ blocks = last.blocks
        /\ allocated = last.allocated

\* C6 witness: a request failed in an arena with handles outstanding.
C6_Witness ==
    /\ last.op = "first_fit"
    /\ last.ret = None
    /\ Len(allocated) >= 2
    /\ Len(Cur) >= 3

\* C7: a successful first_fit adds one block exactly when the matched block
\* was larger than the request.  On a split the returned block keeps its
\* start, has the requested size and is used; one new free block follows it,
\* starting at old start + size with the rest of the old size, and its
\* successor is the original's former successor.  Nothing else changes.
C7_Split ==
    (last.op = "first_fit" /\ last.ret # None) =>
        LET b == last.ret
            old == last.blocks[b]
            n == blocks[b].next
        IN  /\ Len(Cur) = Len(Pre) + (IF old.size > last.size THEN 1 ELSE 0)
            /\ Triple(blocks, b) = <<old.start, last.size, FALSE>>
            /\ \A i \in 1..Len(Pre) :
                  Pre[i] # b => Triple(blocks, Pre[i]) = Triple(last.blocks, Pre[i])
            /\ IF old.size > last.size
               THEN /\ n # None
                    /\ last.blocks[n] = NoBlock
                    /\ Triple(blocks, n) =
                          <<old.start + last.size, old.size - last.size, TRUE>>
                    /\ blocks[n].next = old.next
                    /\ Cur = InsertAfter(Pre, b, n)
               ELSE Cur = Pre

\* C7 witness: a block that had a successor was split.
C7_Witness ==
    /\ last.op = "first_fit"
    /\ last.ret # None
    /\ last.blocks[last.ret].size > last.size
    /\ last.blocks[last.ret].next # None

\* C8: releasing a used block leaves one free block in place of it and its
\* free neighbours: it starts at their lowest start, its size is the sum of
\* theirs, the absorbed blocks are no longer reachable from head (the count
\* drops by the number of free neighbours), and no other block changes.
C8_Coalesce ==
    (last.op = "free_block" /\ ~last.wasStale) =>
        LET b == last.handle
            old == last.blocks
            pv == old[b].prev
            nx == old[b].next
            fp == pv # None /\ old[pv].free
            fn == nx # None /\ old[nx].free
            s == IF fp THEN pv ELSE b
            gone == (IF fp THEN {b} ELSE {}) \cup (IF fn THEN {nx} ELSE {})
        IN  /\ ~old[b].free
            /\ Triple(blocks, s) =
                  <<old[s].start,
                    old[b].size + (IF fp THEN old[pv].size ELSE 0)
                                + (IF fn THEN old[nx].size ELSE 0),
                    TRUE>>
            /\ Cur = Without(Pre, gone)
            /\ Len(Cur) = Len(Pre) - Cardinality(gone)
            /\ \A i \in 1..Len(Cur) :
                  Cur[i] # s => Triple(blocks, Cur[i]) = Triple(old, Cur[i])

\* C8 witness: a block with a free predecessor and a free successor, and a
\* further block on one side, was released.
C8_Witness ==
    /\ last.op = "free_block"
    /\ LET b == last.handle
           pv == last.blocks[b].prev
           nx == last.blocks[b].next
       IN  /\ pv # None /\ last.blocks[pv].free
           /\ nx # None /\ last.blocks[nx].free
           /\ last.blocks[pv].prev # None \/ last.blocks[nx].next # None

\* C9: from its return by first_fit to its release, a handle's block is
\* reachable from head exactly once, is used, and keeps its start and size,
\* whatever other calls are made in between.
C9_HandleStable ==
    [][\A i \in 1..Len(allocated') :
          LET h == allocated'[i]
          IN  /\ Count(Walk(blocks', head'), h) = 1
              /\ ~blocks'[h].free
              /\ IF \E j \in 1..Len(allocated) : allocated[j] = h
                 THEN /\ blocks'[h].start = blocks[h].start
                      /\ blocks'[h].size = blocks[h].size
                 ELSE /\ last'.ret = h
                      /\ blocks'[h].size = last'.size]_vars

\* C9 witness: a handle is outstanding between two free blocks after a
\* neighbour of its block was released.
C9_Witness ==
    /\ last.op = "free_block"
    /\ \E i \in 1..Len(allocated) :
          LET h == allocated[i]
          IN  /\ h \in {last.blocks[last.handle].prev, last.blocks[last.handle].next}
              /\ blocks[h].prev # None /\ blocks[blocks[h].prev].free
              /\ blocks[h].next # None /\ blocks[blocks[h].next].free

\* C10: a free_block call on a handle that was released before is reported
\* as a failure (InvalidHandle) and never succeeds.
C10_DoubleReleaseRejected ==
    (last.op = "free_block" /\ last.wasStale) => last.outcome = "InvalidHandle"

\* C11: a free_block call on a handle that was released before (its block
\* still in the list as a free block, or absorbed into a neighbour) leaves
\* the traversal of (start, size, free) triples as it was.
C11_StaleReleaseChangesNothing ==
    (last.op = "free_block" /\ last.wasStale) =>
        Traversal(blocks, head) = Traversal(last.blocks, head)

\* C12: construction with total_memory <= 0 fails with InvalidCapacity and
\* creates no arena; with total_memory > 0 it yields one free block with
\* start 0 and size total_memory.
C12_Construction ==
    last.op = "init" =>
        IF total_memory <= 0
        THEN last.outcome = "InvalidCapacity" /\ head = None
        ELSE Traversal(blocks, head) = <<<<0, total_memory, TRUE>>>>

\* C13: in an arena of 100, allocate(40), allocate(30), release of the first
\* handle and allocate(35) give in turn [0,40) used + [40,100) free;
\* [0,40) used, [40,70) used, [70,100) free; [0,40) free, [40,70) used,
\* [70,100) free; and [0,35) used, [35,40) free, [40,70) used, [70,100) free.
RoundTrip0 == <<<<0, 100, TRUE>>>>
RoundTrip1 == <<<<0, 40, FALSE>>, <<40, 60, TRUE>>>>
RoundTrip2 == <<<<0, 40, FALSE>>, <<40, 30, FALSE>>, <<70, 30, TRUE>>>>
RoundTrip3 == <<<<0, 40, TRUE>>, <<40, 30, FALSE>>, <<70, 30, TRUE>>>>
RoundTrip4 ==
    <<<<0, 35, FALSE>>, <<35, 5, TRUE>>, <<40, 30, FALSE>>, <<70, 30, TRUE>>>>

C13_RoundTrip ==
    LET before == Traversal(last.blocks, head)
        after == Traversal(blocks, head)
    IN  /\ (last.op = "first_fit" /\ last.size = 40 /\ before = RoundTrip0) =>
              after = RoundTrip1
        /\ (last.op = "first_fit" /\ last.size = 30 /\ before = RoundTrip1) =>
              after = RoundTrip2
        /\ (last.op = "free_block" /\ before = RoundTrip2
               /\ last.blocks[last.handle].start = 0) =>
              after = RoundTrip3
        /\ (last.op = "first_fit" /\ last.size = 35 /\ before = RoundTrip3) =>
              /\ last.ret # None
              /\ last.blocks[last.ret].start = 0
              /\ after = RoundTrip4

\* C13 witness: the fourth call of the scenario, allocate(35), was made.
C13_Witness ==
    /\ steps = 4
    /\ last.op = "first_fit"
    /\ last.size = 35
    /\ Traversal(last.blocks, head) = RoundTrip3

\* C16: after every call head.prev is None, every reachable block with a
\* successor is that successor's prev, and the walk from head meets no block
\* twice.
C16_Linked ==
    /\ head # None
    /\ blocks[head].prev = None
    /\ \A i \in 1..Len(Cur) :
          /\ Count(Cur, Cur[i]) = 1
          /\ blocks[Cur[i]].next # None =>
                blocks[blocks[Cur[i]].next].prev = Cur[i]

\* C16 witness: a split put its remainder between two blocks, and a release
\* unlinked a block that had blocks on both sides.
C16_Witness ==
    \/ /\ last.op = "first_fit"
       /\ last.ret # None
       /\ last.blocks[last.ret].prev # None
       /\ last.blocks[last.ret].next # None
       /\ blocks[last.ret].next # last.blocks[last.ret].next
       /\ Len(allocated) >= 3
    \/ /\ last.op = "free_block"
       /\ Len(Pre) = Len(Cur) + 2
       /\ Len(Cur) >= 2

\* C17: whenever no handle is outstanding, the arena is its initial single
\* free block [0, total_memory).
C17_AllReleased ==
    allocated = <<>> => Traversal(blocks, head) = <<<<0, total_memory, TRUE>>>>

\* C17 witness: the last of several handles was released, in an arena that
\* still had three blocks or more.
C17_Witness ==
    /\ last.op = "free_block"
    /\ allocated = <<>>
    /\ Len(Pre) >= 3

\* C18: the simulation loop terminates: every fair run eventually leaves the
\* loop, with alloc_attempts and free_count at their limits.
C18_Terminates ==
    <>(/\ pc = "done"
       /\ alloc_attempts = MaxAllocAttempts
       /\ free_count = MaxFreeCount)

\* C19: in every state of the simulation the list `allocated` holds only
\* blocks reachable from head and marked used, none twice, so free_block is
\* only ever called on a live, allocated block.
C19_AllocatedLive ==
    /\ \A i \in 1..Len(allocated) :
          /\ allocated[i] # None
          /\ Count(Cur, allocated[i]) = 1
          /\ ~blocks[allocated[i]].free
          /\ Count(allocated, allocated[i]) = 1
    /\ last.op = "free_block" =>
          /\ Count(Pre, last.handle) = 1
          /\ ~last.blocks[last.handle].free
          /\ Count(last.allocated, last.handle) = 1

\* C19 witness: the simulation released a second block while others were
\* still listed.
C19_Witness ==
    /\ last.op = "free_block"
    /\ free_count >= 2
    /\ Len(allocated) >= 2

C15_NoDuplicateLines ==
    \A n \in NodeIds :
        \A i, j \in 1..Len(nodes[n].lines) :
            nodes[n].lines[i] = nodes[n].lines[j] => i = j

\* C20: the tree loaded from the saved file yields the same traversal (words
\* and line lists, in order) as the tree that was saved.
C20_SaveLoadRoundTrip ==
    reloaded.done =>
        /\ ~reloaded.error
        /\ inorder_traverse(reloaded.nodes, reloaded.root)
              = inorder_traverse(nodes, root)

====
